---- MODULE Spec2Model ----
(***************************************************************************)
(* The ingestion pipeline of scripts/data/ingest_datasets.py: main() clears *)
(* the two tables, writes the links dataset chunk by chunk, builds the set  *)
(* of persisted link ids, writes the speed dataset chunk by chunk and       *)
(* verifies.  One action per step of the script; a batch transaction        *)
(* (bulk_save_objects + commit, or rollback) is one atomic step.            *)
(*                                                                         *)
(* The session is a working one (session.rollback() and the id query       *)
(* return normally) except in FaultSpec, where either may raise.  A         *)
(* failing commit is decided by the                                         *)
(* store's constraints on the rows (primary key, column type, NOT NULL).    *)
(* The store's foreign key is deliberately not relied on: SpeedInsertOK     *)
(* does not check it, so referential integrity rests on the script's own    *)
(* in-memory check.                                                         *)
(*                                                                         *)
(* Spec is the pipeline run again and again over files that exist.         *)
(* FilesSpec is one run where a source file may be missing.                *)
(* TransformerSpec is one call of a row transformer on a chunk of any raw  *)
(* values.  ReloadSpec is one run over a destination that already holds    *)
(* data, FaultSpec one run in which a session call may raise, AuditSpec    *)
(* one run followed by validation mode.  ValidationSpec is main() of       *)
(* scripts/data/validate_ingestion.py and DatabaseSpec the cached engine   *)
(* and session factory of app/core/database.py.  They share the            *)
(* variables; each leaves the variables of the others at their initial     *)
(* values.                                                                 *)
(***************************************************************************)
EXTENDS Integers, Sequences, FiniteSets, TLC

\* ---------------------------------------------------------------- bounds
\* Longest links dataset and longest speed dataset.
MaxLinkRows == 3
MaxSpeedRows == 2
\* Configured chunk sizes range over 1..MaxChunkSize (LINK_CHUNK_SIZE and
\* SPEED_RECORD_CHUNK_SIZE, 5000 in the script, scaled down).
MaxChunkSize == 2
\* LINK_BATCH_SIZE (1000) and SPEED_BATCH_SIZE (2000), scaled down.
LINK_BATCH_SIZE == 2
SPEED_BATCH_SIZE == 2
\* Objects (engines and session factories) a process creates at most.
MaxObjects == 8

\* ------------------------------------------------------------ raw values
\* A raw link_id that int() cannot convert (NaN, None, text).
NaN == 0
\* A raw average_speed that float() cannot convert.
BadFloat == 0

Min(a, b) == IF a < b THEN a ELSE b

\* The value None of an optional geometry.
None == [gtype |-> "None", parts |-> <<>>, srid |-> 0]

\* A source shape is GeoJSON-like: a type and its parts, each part a named
\* coordinate list.  "Unparsable" is a value json.loads or shape() raises on.
\* Rows of link_info.parquet.gz (columns link_id, geo_json; road_name and
\* _length never skip a row nor fail an insert and are left out).
LinkRows ==
    { [link_id |-> 1, geo_json |-> [gtype |-> "LineString", parts |-> <<"a">>]],
      [link_id |-> 2, geo_json |-> [gtype |-> "MultiLineString", parts |-> <<"a", "b">>]],
      [link_id |-> 2, geo_json |-> [gtype |-> "Point", parts |-> <<"a">>]],
      [link_id |-> 1, geo_json |-> [gtype |-> "MultiLineString", parts |-> <<>>]],
      [link_id |-> NaN, geo_json |-> [gtype |-> "LineString", parts |-> <<"a">>]] }

\* Rows of duval_jan1_2024.parquet.gz.  date_time "missing" is a null value
\* and "bad" a text that is no date; see to_datetime.
SpeedRows ==
    { [link_id |-> 1, date_time |-> "t1", average_speed |-> 50, period |-> 3],
      [link_id |-> 2, date_time |-> "missing", average_speed |-> 50, period |-> 9],
      [link_id |-> 2, date_time |-> "t1", average_speed |-> BadFloat, period |-> 3] }

SeqsUpTo(S, n) == UNION { [1..k -> S] : k \in 0..n }

ChunkSizes == 1..MaxChunkSize

VARIABLES
    linkFile,            \* link_info.parquet.gz, immutable
    speedFile,           \* duval_jan1_2024.parquet.gz, immutable
    links,               \* table links: a set of Link rows
    speed_records,       \* table speed_records: rows in insertion order (id = position)
    pc,                  \* position of main()
    chunk_size,          \* the configured chunk size of this run
    start_idx,           \* rows of the current dataset already chunked
    link_objects,        \* _transform_link_chunk's result for the current chunk
    speed_objects,       \* _transform_speed_chunk's result for the current chunk
    chunk_skipped,       \* _transform_speed_chunk's skipped_count
    i,                   \* offset of the current batch in the chunk's objects
    j,                   \* position in the batch of the individual retry
    chunk_inserted,      \* total_inserted of the running _bulk_insert_* call
    l_processed,         \* process_links_chunked: total_processed
    l_inserted,          \* process_links_chunked: total_inserted
    s_processed,         \* process_speed_records_chunked: total_processed
    s_inserted,          \* process_speed_records_chunked: total_inserted
    s_skipped,           \* process_speed_records_chunked: total_skipped
    existing_link_ids,   \* the referential index
    cleared,             \* history: this run's clear step committed
    attempted,           \* history: this run attempted an insert
    degraded,            \* history: this run had a bulk insert fail
    prev,                \* history: what the last completed run reported
    link_exists,         \* link_info.parquet.gz is there and readable
    speed_exists,        \* duval_jan1_2024.parquet.gz is there and readable
    validation,          \* validate_ingestion.main: its locals results and all_passed,
                         \* the exit_code of the process (Running before it exits)
                         \* and, as history, the outcomes of the validations run
    database             \* app/core/database.py: the globals _engine and
                         \* _session_factory (0 is None), the lru_cache of each
                         \* getter (0 is empty), the identity of the next object
                         \* created and, as history, what each getter returned
                         \* since and before the last reset

vars == << linkFile, speedFile, links, speed_records, pc, chunk_size,
           start_idx, link_objects, speed_objects, chunk_skipped, i, j,
           chunk_inserted, l_processed, l_inserted, s_processed, s_inserted,
           s_skipped, existing_link_ids, cleared, attempted, degraded, prev,
           link_exists, speed_exists, validation, database >>

files == << linkFile, speedFile, link_exists, speed_exists >>
tables == << links, speed_records >>
link_totals == << l_processed, l_inserted >>
speed_totals == << s_processed, s_inserted, s_skipped >>
history == << cleared, attempted, degraded, prev >>

NoPrev == [done |-> FALSE, chunk_size |-> 0, links |-> 0, speeds |-> 0,
           l_inserted |-> 0, s_inserted |-> 0]

\* ------------------------------------------------------------ transformers

\* A table whose codes start at 0.
PERIOD_MAPPING_ZeroBased(code) ==
    CASE code = 0 -> "Overnight"
      [] code = 1 -> "Early Morning"
      [] code = 2 -> "AM Peak"
      [] code = 3 -> "Midday"
      [] code = 4 -> "Early Afternoon"
      [] code = 5 -> "PM Peak"
      [] code = 6 -> "Evening"
      [] OTHER -> "None"

\* PERIOD_MAPPING.get(code, None)
PERIOD_MAPPING(code) ==
    CASE code = 1 -> "Overnight"
      [] code = 2 -> "Early Morning"
      [] code = 3 -> "AM Peak"
      [] code = 4 -> "Midday"
      [] code = 5 -> "Early Afternoon"
      [] code = 6 -> "PM Peak"
      [] code = 7 -> "Evening"
      [] OTHER -> "None"

\* A normalizer that keeps the last part of a MultiLineString.
convert_geometry_to_wkt_element_LastPart(geo_json) ==
    IF geo_json.gtype = "Unparsable" THEN None
    ELSE IF geo_json.gtype = "MultiLineString"
         THEN IF Len(geo_json.parts) > 0
              THEN [gtype |-> "LineString",
                    parts |-> << geo_json.parts[Len(geo_json.parts)] >>, srid |-> 4326]
              ELSE None
         ELSE [gtype |-> geo_json.gtype, parts |-> geo_json.parts, srid |-> 4326]

\* convert_geometry_to_wkt_element: None when parsing raises or a
\* MultiLineString is empty; the first part of a MultiLineString; any other
\* shape unchanged, as WKT tagged with SRID 4326.
convert_geometry_to_wkt_element(geo_json) ==
    IF geo_json.gtype = "Unparsable" THEN None
    ELSE IF geo_json.gtype = "MultiLineString"
         THEN IF Len(geo_json.parts) > 0
              THEN [gtype |-> "LineString", parts |-> << geo_json.parts[1] >>, srid |-> 4326]
              ELSE None
         ELSE [gtype |-> geo_json.gtype, parts |-> geo_json.parts, srid |-> 4326]

\* A run with the skip on a None geometry left out.
TransformLinkRow_KeepNone(row) ==
    IF row.link_id = NaN THEN << >>
    ELSE << [link_id |-> row.link_id,
             geometry |-> convert_geometry_to_wkt_element(row.geo_json)] >>

\* A loop body that passes the raw link_id through instead of converting it.
TransformLinkRow_RawId(row) ==
    LET geometry_element == convert_geometry_to_wkt_element(row.geo_json)
    IN  IF geometry_element = None THEN << >>
        ELSE << [link_id |-> row.link_id, geometry |-> geometry_element] >>

\* The body of _transform_link_chunk's loop: the Link objects (none or one)
\* the row adds to link_objects.
TransformLinkRow(row) ==
    LET geometry_element == convert_geometry_to_wkt_element(row.geo_json)
    IN  IF geometry_element = None THEN << >>          \* continue
        ELSE IF row.link_id = NaN THEN << >>           \* int() raises: except, continue
        ELSE << [link_id |-> row.link_id, geometry |-> geometry_element] >>

\* A loop whose conversion of link_id is outside the try: the first row it
\* raises on ends the loop.
RECURSIVE transform_link_chunk_Escapes(_)
transform_link_chunk_Escapes(chunk_df) ==
    IF chunk_df = << >> THEN << >>
    ELSE IF /\ convert_geometry_to_wkt_element(Head(chunk_df).geo_json) # None
            /\ Head(chunk_df).link_id = NaN
         THEN << >>
         ELSE TransformLinkRow(Head(chunk_df))
                  \o transform_link_chunk_Escapes(Tail(chunk_df))

RECURSIVE transform_link_chunk(_)
transform_link_chunk(chunk_df) ==
    IF chunk_df = << >> THEN << >>
    ELSE TransformLinkRow(Head(chunk_df)) \o transform_link_chunk(Tail(chunk_df))

\* pd.to_datetime: raises on text that is no date, gives NaT for a missing
\* value and the instant otherwise.
to_datetime(date_time) ==
    [ok |-> date_time # "bad",
     value |-> IF date_time = "missing" THEN "NaT" ELSE date_time]

\* A loop body without the referential check.
TransformSpeedRow_NoCheck(row, ids) ==
    IF row.link_id = NaN \/ ~to_datetime(row.date_time).ok
       \/ row.average_speed = BadFloat
    THEN [objects |-> << >>, skipped |-> 0]
    ELSE [objects |-> << [link_id |-> row.link_id,
                          timestamp |-> to_datetime(row.date_time).value,
                          speed |-> row.average_speed,
                          time_period |-> PERIOD_MAPPING(row.period)] >>,
          skipped |-> 0]

\* A loop body that drops a row with an unknown link without counting it.
TransformSpeedRow_SkipUncounted(row, ids) ==
    IF row.link_id = NaN \/ row.link_id \notin ids
       \/ ~to_datetime(row.date_time).ok \/ row.average_speed = BadFloat
    THEN [objects |-> << >>, skipped |-> 0]
    ELSE [objects |-> << [link_id |-> row.link_id,
                          timestamp |-> to_datetime(row.date_time).value,
                          speed |-> row.average_speed,
                          time_period |-> PERIOD_MAPPING(row.period)] >>,
          skipped |-> 0]

\* The body of _transform_speed_chunk's loop: the SpeedRecord objects the row
\* adds to speed_objects and what it adds to skipped_count.
TransformSpeedRow(row, ids) ==
    IF row.link_id = NaN THEN [objects |-> << >>, skipped |-> 0]       \* int() raises
    ELSE IF row.link_id \notin ids THEN [objects |-> << >>, skipped |-> 1]
    ELSE IF ~to_datetime(row.date_time).ok THEN [objects |-> << >>, skipped |-> 0]
    ELSE IF row.average_speed = BadFloat THEN [objects |-> << >>, skipped |-> 0]
    ELSE [objects |-> << [link_id |-> row.link_id,
                          timestamp |-> to_datetime(row.date_time).value,
                          speed |-> row.average_speed,
                          time_period |-> PERIOD_MAPPING(row.period)] >>,
          skipped |-> 0]

RECURSIVE transform_speed_chunk(_, _)
transform_speed_chunk(chunk_df, ids) ==
    IF chunk_df = << >> THEN [objects |-> << >>, skipped |-> 0]
    ELSE LET r == TransformSpeedRow(Head(chunk_df), ids)
             rest == transform_speed_chunk(Tail(chunk_df), ids)
         IN  [objects |-> r.objects \o rest.objects,
              skipped |-> r.skipped + rest.skipped]

\* ------------------------------------------------------------------ store

LinkIds(table) == { l.link_id : l \in table }

\* A geometry column that takes any shape.
GeometryColumnOK_AnyType(geometry) == TRUE

\* Column links.geometry: Geometry("LINESTRING", srid=4326), nullable.
GeometryColumnOK(geometry) ==
    geometry = None \/ (geometry.gtype = "LineString" /\ geometry.srid = 4326)

\* A links table without its primary key.
LinkInsertOK_NoKey(table, obj) == GeometryColumnOK(obj.geometry)

\* Whether the store takes one Link row: primary key and geometry column.
LinkInsertOK(table, obj) ==
    /\ obj.link_id \notin LinkIds(table)
    /\ GeometryColumnOK(obj.geometry)

\* Whether one transaction takes the whole batch.
LinkBatchOK(table, batch) ==
    /\ \A k \in DOMAIN batch : LinkInsertOK(table, batch[k])
    /\ \A k, m \in DOMAIN batch : k # m => batch[k].link_id # batch[m].link_id

\* Whether the store takes one SpeedRecord row: timestamp is NOT NULL.
SpeedInsertOK(obj) == obj.timestamp # "NaT"

SpeedBatchOK(batch) == \A k \in DOMAIN batch : SpeedInsertOK(batch[k])

LinkBatch == SubSeq(link_objects, i + 1, Min(i + LINK_BATCH_SIZE, Len(link_objects)))
SpeedBatch == SubSeq(speed_objects, i + 1, Min(i + SPEED_BATCH_SIZE, Len(speed_objects)))

SeqToSet(s) == { s[k] : k \in DOMAIN s }

\* --------------------------------------------------------------- Init

\* The exit status of a process that has not exited.
Running == -1

\* validate_ingestion.py is not running.
ValidationIdle ==
    validation = [results |-> << >>, all_passed |-> TRUE, exit_code |-> Running,
                  outcomes |-> << >>]

\* app/core/database.py as imported: both globals None, both caches empty.
DatabaseIdle ==
    database = [_engine |-> 0, _session_factory |-> 0, engine_cache |-> 0,
                factory_cache |-> 0, next_object |-> 1, engines_returned |-> {},
                factories_returned |-> {}, engines_retired |-> {},
                factories_retired |-> {}]

Init ==
    /\ linkFile \in SeqsUpTo(LinkRows, MaxLinkRows)
    /\ speedFile \in SeqsUpTo(SpeedRows, MaxSpeedRows)
    /\ links = {}
    /\ speed_records = << >>
    /\ pc = "idle"
    /\ chunk_size = 1
    /\ start_idx = 0
    /\ link_objects = << >>
    /\ speed_objects = << >>
    /\ chunk_skipped = 0
    /\ i = 0
    /\ j = 0
    /\ chunk_inserted = 0
    /\ l_processed = 0
    /\ l_inserted = 0
    /\ s_processed = 0
    /\ s_inserted = 0
    /\ s_skipped = 0
    /\ existing_link_ids = {}
    /\ cleared = FALSE
    /\ attempted = FALSE
    /\ degraded = FALSE
    /\ prev = NoPrev
    /\ link_exists = TRUE
    /\ speed_exists = TRUE
    /\ ValidationIdle
    /\ DatabaseIdle

\* ---------------------------------------------------------------- actions

\* main() is started (again), with a configured chunk size.
StartRun ==
    /\ pc \in {"idle", "done", "aborted"}
    /\ chunk_size' \in ChunkSizes
    /\ pc' = "clear"
    /\ start_idx' = 0
    /\ link_objects' = << >>
    /\ speed_objects' = << >>
    /\ chunk_skipped' = 0
    /\ i' = 0
    /\ j' = 0
    /\ chunk_inserted' = 0
    /\ l_processed' = 0
    /\ l_inserted' = 0
    /\ s_processed' = 0
    /\ s_inserted' = 0
    /\ s_skipped' = 0
    /\ existing_link_ids' = {}
    /\ cleared' = FALSE
    /\ attempted' = FALSE
    /\ degraded' = FALSE
    /\ UNCHANGED << files, validation, database,
                    tables, prev >>

\* A clear step that deletes the links and keeps the speed records.
ClearCommit_LinksOnly ==
    /\ pc = "clear"
    /\ links' = {}
    /\ cleared' = TRUE
    /\ pc' = "links"
    /\ UNCHANGED << files, validation, database,
                    speed_records, chunk_size, start_idx, link_objects,
                    speed_objects, chunk_skipped, i, j, chunk_inserted, link_totals,
                    speed_totals, existing_link_ids, attempted, degraded, prev >>

\* clear_existing_data_orm: both deletes and the commit.
ClearCommit ==
    /\ pc = "clear"
    /\ speed_records' = << >>
    /\ links' = {}
    /\ cleared' = TRUE
    /\ pc' = "links"
    /\ UNCHANGED << files, validation, database,
                    chunk_size, start_idx, link_objects, speed_objects,
                    chunk_skipped, i, j, chunk_inserted, link_totals, speed_totals,
                    existing_link_ids, attempted, degraded, prev >>

\* A clear step whose failure is swallowed.
ClearFail_Continue ==
    /\ pc = "clear"
    /\ pc' = "links"
    /\ UNCHANGED << files, validation, database,
                    tables, chunk_size, start_idx, link_objects,
                    speed_objects, chunk_skipped, i, j, chunk_inserted, link_totals,
                    speed_totals, existing_link_ids, history >>

\* A failing clear step whose deletion of the speed records is kept.
ClearFail_HalfCleared ==
    /\ pc = "clear"
    /\ speed_records' = << >>
    /\ pc' = "aborted"
    /\ UNCHANGED << files, validation, database,
                    links, chunk_size, start_idx, link_objects,
                    speed_objects, chunk_skipped, i, j, chunk_inserted, link_totals,
                    speed_totals, existing_link_ids, history >>

\* clear_existing_data_orm raises: rollback, re-raise, main() exits with 1.
ClearFail ==
    /\ pc = "clear"
    /\ pc' = "aborted"
    /\ UNCHANGED << files, validation, database,
                    tables, chunk_size, start_idx, link_objects,
                    speed_objects, chunk_skipped, i, j, chunk_inserted, link_totals,
                    speed_totals, existing_link_ids, history >>

locals == << start_idx, link_objects, speed_objects, chunk_skipped, i, j, chunk_inserted >>

\* process_links_chunked, loop head: the next chunk is sliced and transformed.
LinkChunk ==
    /\ pc = "links"
    /\ link_exists
    /\ start_idx < Len(linkFile)
    /\ LET end_idx == Min(start_idx + chunk_size, Len(linkFile))
           chunk_df == SubSeq(linkFile, start_idx + 1, end_idx)
       IN  link_objects' = transform_link_chunk(chunk_df)
    /\ i' = 0
    /\ chunk_inserted' = 0
    /\ pc' = "link_batch"
    /\ UNCHANGED << files, validation, database,
                    tables, chunk_size, start_idx, speed_objects,
                    chunk_skipped, j, link_totals, speed_totals, existing_link_ids,
                    history >>

\* _bulk_insert_links: bulk_save_objects(batch) and commit succeed.
LinkBatchCommit ==
    /\ pc = "link_batch"
    /\ i < Len(link_objects)
    /\ LinkBatchOK(links, LinkBatch)
    /\ links' = links \cup SeqToSet(LinkBatch)
    /\ chunk_inserted' = chunk_inserted + Len(LinkBatch)
    /\ i' = i + LINK_BATCH_SIZE
    /\ attempted' = TRUE
    /\ UNCHANGED << files, validation, database,
                    speed_records, pc, chunk_size, start_idx, link_objects,
                    speed_objects, chunk_skipped, j, link_totals, speed_totals,
                    existing_link_ids, cleared, degraded, prev >>

\* A failed batch that is skipped, the way _bulk_insert_speed_records does.
LinkBatchRollback_Skip ==
    /\ pc = "link_batch"
    /\ i < Len(link_objects)
    /\ ~LinkBatchOK(links, LinkBatch)
    /\ i' = i + LINK_BATCH_SIZE
    /\ attempted' = TRUE
    /\ degraded' = TRUE
    /\ UNCHANGED << files, validation, database,
                    tables, pc, chunk_size, start_idx, link_objects,
                    speed_objects, chunk_skipped, j, chunk_inserted, link_totals,
                    speed_totals, existing_link_ids, cleared, prev >>

\* A failed bulk insert whose rollback leaves the first row of the batch in
\* the table.
LinkBatchRollback_KeepsFirst ==
    /\ pc = "link_batch"
    /\ i < Len(link_objects)
    /\ ~LinkBatchOK(links, LinkBatch)
    /\ links' = IF LinkInsertOK(links, LinkBatch[1])
                THEN links \cup { LinkBatch[1] } ELSE links
    /\ pc' = "link_retry"
    /\ j' = 1
    /\ attempted' = TRUE
    /\ degraded' = TRUE
    /\ UNCHANGED << files, validation, database,
                    speed_records, chunk_size, start_idx, link_objects,
                    speed_objects, chunk_skipped, i, chunk_inserted, link_totals,
                    speed_totals, existing_link_ids, cleared, prev >>

\* _bulk_insert_links: the bulk insert raises; rollback, then the individual
\* retries start.
LinkBatchRollback ==
    /\ pc = "link_batch"
    /\ i < Len(link_objects)
    /\ ~LinkBatchOK(links, LinkBatch)
    /\ pc' = "link_retry"
    /\ j' = 1
    /\ attempted' = TRUE
    /\ degraded' = TRUE
    /\ UNCHANGED << files, validation, database,
                    tables, chunk_size, start_idx, link_objects,
                    speed_objects, chunk_skipped, i, chunk_inserted, link_totals,
                    speed_totals, existing_link_ids, cleared, prev >>

\* The retry loop moves to the next row of the batch, or the batch is over.
RetryAdvance ==
    IF j < Len(LinkBatch)
    THEN j' = j + 1 /\ UNCHANGED << pc, i >>
    ELSE j' = 0 /\ i' = i + LINK_BATCH_SIZE /\ pc' = "link_batch"

\* An individual retry whose commit is not counted.
LinkRetryCommit_Uncounted ==
    /\ pc = "link_retry"
    /\ LinkInsertOK(links, LinkBatch[j])
    /\ links' = links \cup { LinkBatch[j] }
    /\ RetryAdvance
    /\ UNCHANGED << files, validation, database,
                    speed_records, chunk_size, start_idx, link_objects,
                    speed_objects, chunk_skipped, chunk_inserted, link_totals,
                    speed_totals, existing_link_ids, history >>

\* _bulk_insert_links: session.add(link_obj) and commit succeed.
LinkRetryCommit ==
    /\ pc = "link_retry"
    /\ LinkInsertOK(links, LinkBatch[j])
    /\ links' = links \cup { LinkBatch[j] }
    /\ chunk_inserted' = chunk_inserted + 1
    /\ RetryAdvance
    /\ UNCHANGED << files, validation, database,
                    speed_records, chunk_size, start_idx, link_objects,
                    speed_objects, chunk_skipped, link_totals, speed_totals,
                    existing_link_ids, history >>

\* _bulk_insert_links: the individual commit raises; rollback, continue.
LinkRetryRollback ==
    /\ pc = "link_retry"
    /\ ~LinkInsertOK(links, LinkBatch[j])
    /\ RetryAdvance
    /\ UNCHANGED << files, validation, database,
                    tables, chunk_size, start_idx, link_objects,
                    speed_objects, chunk_skipped, chunk_inserted, link_totals,
                    speed_totals, existing_link_ids, history >>

\* A loop that counts chunk_size rows for every chunk.
LinkChunkDone_FullChunk ==
    /\ pc = "link_batch"
    /\ i >= Len(link_objects)
    /\ l_inserted' = l_inserted + chunk_inserted
    /\ l_processed' = l_processed + chunk_size
    /\ start_idx' = Min(start_idx + chunk_size, Len(linkFile))
    /\ link_objects' = << >>
    /\ i' = 0
    /\ chunk_inserted' = 0
    /\ pc' = "links"
    /\ UNCHANGED << files, validation, database,
                    tables, chunk_size, speed_objects, chunk_skipped, j,
                    speed_totals, existing_link_ids, history >>

\* process_links_chunked: _bulk_insert_links returned; totals, cleanup.
LinkChunkDone ==
    /\ pc = "link_batch"
    /\ i >= Len(link_objects)
    /\ l_inserted' = l_inserted + chunk_inserted
    /\ l_processed' = l_processed + (Min(start_idx + chunk_size, Len(linkFile)) - start_idx)
    /\ start_idx' = Min(start_idx + chunk_size, Len(linkFile))
    /\ link_objects' = << >>
    /\ i' = 0
    /\ chunk_inserted' = 0
    /\ pc' = "links"
    /\ UNCHANGED << files, validation, database,
                    tables, chunk_size, speed_objects, chunk_skipped, j,
                    speed_totals, existing_link_ids, history >>

\* A link phase that returns while chunks remain.
LinksDone_Early ==
    /\ pc = "links"
    /\ link_exists
    /\ start_idx' = 0
    /\ pc' = "index"
    /\ UNCHANGED << files, validation, database,
                    tables, chunk_size, link_objects, speed_objects,
                    chunk_skipped, i, j, chunk_inserted, link_totals, speed_totals,
                    existing_link_ids, history >>

\* process_links_chunked returns.
LinksDone ==
    /\ pc = "links"
    /\ link_exists
    /\ start_idx >= Len(linkFile)
    /\ start_idx' = 0
    /\ pc' = "index"
    /\ UNCHANGED << files, validation, database,
                    tables, chunk_size, link_objects, speed_objects,
                    chunk_skipped, i, j, chunk_inserted, link_totals, speed_totals,
                    existing_link_ids, history >>

\* get_existing_link_ids: one query of all persisted link ids.
GetExistingLinkIds ==
    /\ pc = "index"
    /\ existing_link_ids' = LinkIds(links)
    /\ pc' = "speeds"
    /\ UNCHANGED << files, validation, database,
                    tables, chunk_size, locals, link_totals, speed_totals,
                    history >>

\* process_speed_records_chunked, loop head: the next chunk is sliced and
\* transformed against the referential index.
SpeedChunk ==
    /\ pc = "speeds"
    /\ speed_exists
    /\ start_idx < Len(speedFile)
    /\ LET end_idx == Min(start_idx + chunk_size, Len(speedFile))
           chunk_df == SubSeq(speedFile, start_idx + 1, end_idx)
           r == transform_speed_chunk(chunk_df, existing_link_ids)
       IN  /\ speed_objects' = r.objects
           /\ chunk_skipped' = r.skipped
    /\ i' = 0
    /\ chunk_inserted' = 0
    /\ pc' = "speed_batch"
    /\ UNCHANGED << files, validation, database,
                    tables, chunk_size, start_idx, link_objects, j,
                    link_totals, speed_totals, existing_link_ids, history >>

\* _bulk_insert_speed_records: bulk_save_objects(batch) and commit succeed.
SpeedBatchCommit ==
    /\ pc = "speed_batch"
    /\ i < Len(speed_objects)
    /\ SpeedBatchOK(SpeedBatch)
    /\ speed_records' = speed_records \o SpeedBatch
    /\ chunk_inserted' = chunk_inserted + Len(SpeedBatch)
    /\ i' = i + SPEED_BATCH_SIZE
    /\ attempted' = TRUE
    /\ UNCHANGED << files, validation, database,
                    links, pc, chunk_size, start_idx, link_objects,
                    speed_objects, chunk_skipped, j, link_totals, speed_totals,
                    existing_link_ids, cleared, degraded, prev >>

\* _bulk_insert_speed_records: the bulk insert raises; rollback, continue
\* with the next batch.
SpeedBatchRollback ==
    /\ pc = "speed_batch"
    /\ i < Len(speed_objects)
    /\ ~SpeedBatchOK(SpeedBatch)
    /\ i' = i + SPEED_BATCH_SIZE
    /\ attempted' = TRUE
    /\ degraded' = TRUE
    /\ UNCHANGED << files, validation, database,
                    tables, pc, chunk_size, start_idx, link_objects,
                    speed_objects, chunk_skipped, j, chunk_inserted, link_totals,
                    speed_totals, existing_link_ids, cleared, prev >>

\* process_speed_records_chunked: _bulk_insert_speed_records returned;
\* totals, cleanup.
SpeedChunkDone ==
    /\ pc = "speed_batch"
    /\ i >= Len(speed_objects)
    /\ s_inserted' = s_inserted + chunk_inserted
    /\ s_processed' = s_processed + (Min(start_idx + chunk_size, Len(speedFile)) - start_idx)
    /\ s_skipped' = s_skipped + chunk_skipped
    /\ start_idx' = Min(start_idx + chunk_size, Len(speedFile))
    /\ speed_objects' = << >>
    /\ chunk_skipped' = 0
    /\ i' = 0
    /\ chunk_inserted' = 0
    /\ pc' = "speeds"
    /\ UNCHANGED << files, validation, database,
                    tables, chunk_size, link_objects, j, link_totals,
                    existing_link_ids, history >>

\* process_speed_records_chunked returns.
SpeedsDone ==
    /\ pc = "speeds"
    /\ speed_exists
    /\ start_idx >= Len(speedFile)
    /\ start_idx' = 0
    /\ pc' = "verify"
    /\ UNCHANGED << files, validation, database,
                    tables, chunk_size, link_objects, speed_objects,
                    chunk_skipped, i, j, chunk_inserted, link_totals, speed_totals,
                    existing_link_ids, history >>

\* verify_data_orm counts both tables; main() reports success.
Verify ==
    /\ pc = "verify"
    /\ pc' = "done"
    /\ prev' = [done |-> TRUE, chunk_size |-> chunk_size,
                links |-> Cardinality(links), speeds |-> Len(speed_records),
                l_inserted |-> l_inserted, s_inserted |-> s_inserted]
    /\ UNCHANGED << files, validation, database,
                    tables, chunk_size, locals, link_totals, speed_totals,
                    existing_link_ids, cleared, attempted, degraded >>

Next ==
    \/ StartRun
    \/ ClearCommit
    \/ ClearFail
    \/ LinkChunk
    \/ LinkBatchCommit
    \/ LinkBatchRollback
    \/ LinkRetryCommit
    \/ LinkRetryRollback
    \/ LinkChunkDone
    \/ LinksDone
    \/ GetExistingLinkIds
    \/ SpeedChunk
    \/ SpeedBatchCommit
    \/ SpeedBatchRollback
    \/ SpeedChunkDone
    \/ SpeedsDone
    \/ Verify

Spec == Init /\ [][Next]_vars

\* ------------------------------------------------- the transformers alone
\* One call of _transform_link_chunk or _transform_speed_chunk on a chunk of
\* any rows: linkFile or speedFile is the chunk, existing_link_ids the index
\* the caller passes.

\* Raw values of a link_id column.
LinkIdValues == {1, 2, NaN}

\* Raw values of a geo_json column.
GeoJsonValues ==
    { [gtype |-> "LineString", parts |-> <<"a">>],
      [gtype |-> "MultiLineString", parts |-> <<"a", "b">>],
      [gtype |-> "MultiLineString", parts |-> << >>],
      [gtype |-> "Point", parts |-> <<"a">>],
      [gtype |-> "Unparsable", parts |-> << >>] }

AnyLinkRows == [link_id : LinkIdValues, geo_json : GeoJsonValues]

\* Raw values of a period column: the seven codes, one below and one above.
PeriodCodes == 0..8

AnySpeedRows ==
    { [link_id |-> 1, date_time |-> "t1", average_speed |-> 50, period |-> p] :
        p \in PeriodCodes }
    \cup [link_id : LinkIdValues, date_time : {"t1", "missing", "bad"},
          average_speed : {50, BadFloat}, period : {3, 9}]

\* A process that has not worked yet: empty tables, zeroed locals and totals.
Fresh ==
    /\ links = {}
    /\ speed_records = << >>
    /\ chunk_size = 1
    /\ start_idx = 0
    /\ link_objects = << >>
    /\ speed_objects = << >>
    /\ chunk_skipped = 0
    /\ i = 0
    /\ j = 0
    /\ chunk_inserted = 0
    /\ l_processed = 0
    /\ l_inserted = 0
    /\ s_processed = 0
    /\ s_inserted = 0
    /\ s_skipped = 0
    /\ existing_link_ids = {}
    /\ cleared = FALSE
    /\ attempted = FALSE
    /\ degraded = FALSE
    /\ prev = NoPrev

TransformerInit ==
    /\ linkFile = << >>
    /\ speedFile = << >>
    /\ link_exists = TRUE
    /\ speed_exists = TRUE
    /\ pc = "transformer"
    /\ Fresh
    /\ ValidationIdle
    /\ DatabaseIdle

\* link_objects = _transform_link_chunk(chunk_df)
CallTransformLinkChunk ==
    /\ pc = "transformer"
    /\ \E chunk_df \in SeqsUpTo(AnyLinkRows, MaxLinkRows) :
          /\ linkFile' = chunk_df
          /\ link_objects' = transform_link_chunk(chunk_df)
    /\ pc' = "links_returned"
    /\ UNCHANGED << speedFile, link_exists, speed_exists, validation, database,
                    tables, chunk_size, start_idx, speed_objects, chunk_skipped,
                    i, j, chunk_inserted, link_totals, speed_totals,
                    existing_link_ids, history >>

\* speed_objects, chunk_skipped = _transform_speed_chunk(chunk_df, existing_link_ids)
CallTransformSpeedChunk ==
    /\ pc = "transformer"
    /\ \E chunk_df \in SeqsUpTo(AnySpeedRows, MaxSpeedRows),
          ids \in SUBSET (LinkIdValues \ {NaN}) :
          /\ speedFile' = chunk_df
          /\ existing_link_ids' = ids
          /\ LET r == transform_speed_chunk(chunk_df, ids)
             IN  /\ speed_objects' = r.objects
                 /\ chunk_skipped' = r.skipped
    /\ pc' = "speeds_returned"
    /\ UNCHANGED << linkFile, link_exists, speed_exists, validation, database,
                    tables, chunk_size, start_idx, link_objects, i, j,
                    chunk_inserted, link_totals, speed_totals, history >>

TransformerNext ==
    \/ CallTransformLinkChunk
    \/ CallTransformSpeedChunk

TransformerSpec == TransformerInit /\ [][TransformerNext]_vars

\* ------------------------------------------ one run, files may be missing
\* A single run of main() from an empty database, where either source file
\* may be missing or unreadable.

FilesInit ==
    /\ link_exists \in BOOLEAN
    /\ speed_exists \in BOOLEAN
    /\ linkFile \in IF link_exists THEN SeqsUpTo(LinkRows, MaxLinkRows) ELSE { << >> }
    /\ speedFile \in IF speed_exists THEN SeqsUpTo(SpeedRows, MaxSpeedRows) ELSE { << >> }
    /\ pc = "idle"
    /\ Fresh
    /\ ValidationIdle
    /\ DatabaseIdle

\* main() is started, once.
StartOnce ==
    /\ pc = "idle"
    /\ StartRun

\* A handler that swallows the error and goes on to the next phase.
LinksMissing_Continue ==
    /\ pc = "links"
    /\ start_idx = 0
    /\ ~link_exists
    /\ pc' = "index"
    /\ UNCHANGED << files, validation, database, tables, chunk_size, locals,
                    link_totals, speed_totals, existing_link_ids, history >>

\* process_links_chunked: os.path.exists is false (FileNotFoundError) or
\* read_parquet raises (printed and re-raised); main() prints the traceback
\* and exits with status 1.
LinksMissing ==
    /\ pc = "links"
    /\ start_idx = 0
    /\ ~link_exists
    /\ pc' = "aborted"
    /\ UNCHANGED << files, validation, database, tables, chunk_size, locals,
                    link_totals, speed_totals, existing_link_ids, history >>

\* A run that looks for the speed file before it starts the link phase.
SpeedsMissing_Upfront ==
    /\ pc = "links"
    /\ start_idx = 0
    /\ ~speed_exists
    /\ pc' = "aborted"
    /\ UNCHANGED << files, validation, database, tables, chunk_size, locals,
                    link_totals, speed_totals, existing_link_ids, history >>

\* process_speed_records_chunked: the same for the speed file.
SpeedsMissing ==
    /\ pc = "speeds"
    /\ start_idx = 0
    /\ ~speed_exists
    /\ pc' = "aborted"
    /\ UNCHANGED << files, validation, database, tables, chunk_size, locals,
                    link_totals, speed_totals, existing_link_ids, history >>

FilesNext ==
    \/ StartOnce
    \/ ClearCommit
    \/ ClearFail
    \/ LinksMissing
    \/ LinkChunk
    \/ LinkBatchCommit
    \/ LinkBatchRollback
    \/ LinkRetryCommit
    \/ LinkRetryRollback
    \/ LinkChunkDone
    \/ LinksDone
    \/ GetExistingLinkIds
    \/ SpeedsMissing
    \/ SpeedChunk
    \/ SpeedBatchCommit
    \/ SpeedBatchRollback
    \/ SpeedChunkDone
    \/ SpeedsDone
    \/ Verify

FilesSpec == FilesInit /\ [][FilesNext]_vars

\* ------------------------------- one run over a destination that holds data
\* A single run of main() over a destination left by an earlier load, where
\* either source file may be missing.

\* What an earlier load left: a link that the source files of this run do
\* not carry in this shape, and a speed record that refers to it.
StaleLink ==
    [link_id |-> 2, geometry |-> [gtype |-> "LineString", parts |-> <<"b">>, srid |-> 4326]]
StaleSpeedRecord ==
    [link_id |-> 2, timestamp |-> "t0", speed |-> 40, time_period |-> "Overnight"]

Destinations ==
    { [links |-> {}, speed_records |-> << >>],
      [links |-> { StaleLink }, speed_records |-> << >>],
      [links |-> { StaleLink }, speed_records |-> << StaleSpeedRecord >>] }

ReloadInit ==
    /\ link_exists \in BOOLEAN
    /\ speed_exists \in BOOLEAN
    /\ linkFile \in IF link_exists THEN SeqsUpTo(LinkRows, MaxLinkRows) ELSE { << >> }
    /\ speedFile \in IF speed_exists THEN SeqsUpTo(SpeedRows, MaxSpeedRows) ELSE { << >> }
    /\ \E d \in Destinations :
          /\ links = d.links
          /\ speed_records = d.speed_records
    /\ pc = "clear"
    /\ chunk_size \in ChunkSizes
    /\ start_idx = 0
    /\ link_objects = << >>
    /\ speed_objects = << >>
    /\ chunk_skipped = 0
    /\ i = 0
    /\ j = 0
    /\ chunk_inserted = 0
    /\ l_processed = 0
    /\ l_inserted = 0
    /\ s_processed = 0
    /\ s_inserted = 0
    /\ s_skipped = 0
    /\ existing_link_ids = {}
    /\ cleared = FALSE
    /\ attempted = FALSE
    /\ degraded = FALSE
    /\ prev = NoPrev
    /\ ValidationIdle
    /\ DatabaseIdle

ReloadNext ==
    \/ ClearCommit
    \/ ClearFail
    \/ LinksMissing
    \/ LinkChunk
    \/ LinkBatchCommit
    \/ LinkBatchRollback
    \/ LinkRetryCommit
    \/ LinkRetryRollback
    \/ LinkChunkDone
    \/ LinksDone
    \/ GetExistingLinkIds
    \/ SpeedsMissing
    \/ SpeedChunk
    \/ SpeedBatchCommit
    \/ SpeedBatchRollback
    \/ SpeedChunkDone
    \/ SpeedsDone
    \/ Verify

ReloadSpec == ReloadInit /\ [][ReloadNext]_vars

\* ------------------------------------------- one run, session calls may raise
\* A single run of main() from the point where the session is open, in which
\* session.rollback() and the index query may raise.  An exception raised
\* inside a writer's per-batch handler reaches the writer's outer handler
\* ("Critical error in bulk insert"), which rolls back and returns the count
\* so far; if that rollback raises too the exception leaves the writer and
\* main() exits with status 1.

\* Source rows and rows per chunk of this specification: enough for a chunk
\* of two batches.
MaxFaultRows == 3

\* The source rows the transformers turn into objects: what the writers see.
FaultLinkRows == { r \in LinkRows : TransformLinkRow(r) # << >> }
FaultSpeedRows == { r \in SpeedRows : r.average_speed # BadFloat }

FaultInit ==
    /\ link_exists = TRUE
    /\ speed_exists = TRUE
    /\ linkFile \in SeqsUpTo(FaultLinkRows, MaxFaultRows)
    /\ speedFile \in SeqsUpTo(FaultSpeedRows, MaxFaultRows)
    /\ pc = "clear"
    /\ links = {}
    /\ speed_records = << >>
    /\ chunk_size \in 1..MaxFaultRows
    /\ start_idx = 0
    /\ link_objects = << >>
    /\ speed_objects = << >>
    /\ chunk_skipped = 0
    /\ i = 0
    /\ j = 0
    /\ chunk_inserted = 0
    /\ l_processed = 0
    /\ l_inserted = 0
    /\ s_processed = 0
    /\ s_inserted = 0
    /\ s_skipped = 0
    /\ existing_link_ids = {}
    /\ cleared = FALSE
    /\ attempted = FALSE
    /\ degraded = FALSE
    /\ prev = NoPrev
    /\ ValidationIdle
    /\ DatabaseIdle

\* _bulk_insert_links: the bulk insert raises and so does the rollback in
\* its handler (line 437); control passes to the outer handler (line 450).
LinkRollbackRaises ==
    /\ pc = "link_batch"
    /\ i < Len(link_objects)
    /\ ~LinkBatchOK(links, LinkBatch)
    /\ pc' = "link_critical"
    /\ attempted' = TRUE
    /\ degraded' = TRUE
    /\ UNCHANGED << files, validation, database,
                    tables, chunk_size, start_idx, link_objects,
                    speed_objects, chunk_skipped, i, j, chunk_inserted, link_totals,
                    speed_totals, existing_link_ids, cleared, prev >>

\* _bulk_insert_links: an individual commit raises and so does the rollback
\* in its handler (line 447).
LinkRetryRollbackRaises ==
    /\ pc = "link_retry"
    /\ ~LinkInsertOK(links, LinkBatch[j])
    /\ pc' = "link_critical"
    /\ UNCHANGED << files, validation, database,
                    tables, chunk_size, start_idx, link_objects,
                    speed_objects, chunk_skipped, i, j, chunk_inserted, link_totals,
                    speed_totals, existing_link_ids, history >>

\* An outer handler that goes on with the next batch of the chunk.
LinkCriticalReturn_Resume ==
    /\ pc = "link_critical"
    /\ pc' = "link_batch"
    /\ i' = i + LINK_BATCH_SIZE
    /\ j' = 0
    /\ UNCHANGED << files, validation, database,
                    tables, chunk_size, start_idx, link_objects,
                    speed_objects, chunk_skipped, chunk_inserted, link_totals,
                    speed_totals, existing_link_ids, history >>

\* _bulk_insert_links, outer handler (lines 450-454): the rollback returns
\* and the writer returns total_inserted; the batch loop has been left.
LinkCriticalReturn ==
    /\ pc = "link_critical"
    /\ pc' = "link_batch"
    /\ i' = Len(link_objects)
    /\ j' = 0
    /\ UNCHANGED << files, validation, database,
                    tables, chunk_size, start_idx, link_objects,
                    speed_objects, chunk_skipped, chunk_inserted, link_totals,
                    speed_totals, existing_link_ids, history >>

\* _bulk_insert_links, outer handler: the rollback at line 452 raises; the
\* exception leaves the writer, process_links_chunked re-raises it and
\* main() exits with status 1.
LinkCriticalRaises ==
    /\ pc = "link_critical"
    /\ pc' = "aborted"
    /\ UNCHANGED << files, validation, database,
                    tables, chunk_size, locals, link_totals, speed_totals,
                    existing_link_ids, history >>

\* get_existing_link_ids: the query raises; the handler prints the error
\* and returns an empty set (lines 583-586).
GetExistingLinkIdsRaises ==
    /\ pc = "index"
    /\ existing_link_ids' = {}
    /\ pc' = "speeds"
    /\ UNCHANGED << files, validation, database,
                    tables, chunk_size, locals, link_totals, speed_totals,
                    history >>

\* _bulk_insert_speed_records: the bulk insert raises and so does the
\* rollback in its handler (line 528).
SpeedRollbackRaises ==
    /\ pc = "speed_batch"
    /\ i < Len(speed_objects)
    /\ ~SpeedBatchOK(SpeedBatch)
    /\ pc' = "speed_critical"
    /\ attempted' = TRUE
    /\ degraded' = TRUE
    /\ UNCHANGED << files, validation, database,
                    tables, chunk_size, start_idx, link_objects,
                    speed_objects, chunk_skipped, i, j, chunk_inserted, link_totals,
                    speed_totals, existing_link_ids, cleared, prev >>

\* _bulk_insert_speed_records, outer handler (lines 532-536): the rollback
\* returns and the writer returns total_inserted.
SpeedCriticalReturn ==
    /\ pc = "speed_critical"
    /\ pc' = "speed_batch"
    /\ i' = Len(speed_objects)
    /\ UNCHANGED << files, validation, database,
                    tables, chunk_size, start_idx, link_objects,
                    speed_objects, chunk_skipped, j, chunk_inserted, link_totals,
                    speed_totals, existing_link_ids, history >>

\* _bulk_insert_speed_records, outer handler: the rollback at line 534
\* raises; process_speed_records_chunked re-raises, main() exits with 1.
SpeedCriticalRaises ==
    /\ pc = "speed_critical"
    /\ pc' = "aborted"
    /\ UNCHANGED << files, validation, database,
                    tables, chunk_size, locals, link_totals, speed_totals,
                    existing_link_ids, history >>

FaultNext ==
    \/ ClearCommit
    \/ ClearFail
    \/ LinkChunk
    \/ LinkBatchCommit
    \/ LinkBatchRollback
    \/ LinkRollbackRaises
    \/ LinkRetryCommit
    \/ LinkRetryRollback
    \/ LinkRetryRollbackRaises
    \/ LinkCriticalReturn
    \/ LinkCriticalRaises
    \/ LinkChunkDone
    \/ LinksDone
    \/ GetExistingLinkIds
    \/ GetExistingLinkIdsRaises
    \/ SpeedChunk
    \/ SpeedBatchCommit
    \/ SpeedBatchRollback
    \/ SpeedRollbackRaises
    \/ SpeedCriticalReturn
    \/ SpeedCriticalRaises
    \/ SpeedChunkDone
    \/ SpeedsDone
    \/ Verify

FaultSpec == FaultInit /\ [][FaultNext]_vars

\* ------------------------------------------------------- validation mode
\* validate_ingestion.main: the samples are loaded, the validations run in
\* order, the summary is printed and the process exits.  What a validation
\* does (return True, return False, raise) is the environment's choice.

\* len(validations)
NumValidations == 4

ValidationInit ==
    /\ linkFile = << >>
    /\ speedFile = << >>
    /\ link_exists = TRUE
    /\ speed_exists = TRUE
    /\ pc = "v_load"
    /\ Fresh
    /\ ValidationIdle
    /\ DatabaseIdle

pipeline == << files, tables, chunk_size, locals, link_totals, speed_totals,
              existing_link_ids, history >>

\* load_sample_parquet_data returns.
LoadSamples ==
    /\ pc = "v_load"
    /\ pc' = "v_run"
    /\ UNCHANGED << pipeline, validation, database >>

\* load_sample_parquet_data raises: the outer handler prints the critical
\* error and exits with status 1.
LoadSamplesRaises ==
    /\ pc = "v_load"
    /\ validation' = [validation EXCEPT !.exit_code = 1]
    /\ pc' = "v_critical"
    /\ UNCHANGED << pipeline, database >>

\* The next validation returns passed.
ValidationReturns ==
    /\ pc = "v_run"
    /\ Len(validation.results) < NumValidations
    /\ \E passed \in BOOLEAN :
          validation' = [validation EXCEPT
                            !.results = Append(@, passed),
                            !.all_passed = (@ /\ passed),
                            !.outcomes = Append(@, IF passed THEN "pass" ELSE "fail")]
    /\ UNCHANGED << pipeline, database, pc >>

\* A loop whose try is missing: the exception reaches the outer handler.
ValidationRaises_Propagates ==
    /\ pc = "v_run"
    /\ Len(validation.results) < NumValidations
    /\ validation' = [validation EXCEPT !.outcomes = Append(@, "raise"),
                                        !.exit_code = 1]
    /\ pc' = "v_critical"
    /\ UNCHANGED << pipeline, database >>

\* The next validation raises: the inner handler records it as False.
ValidationRaises ==
    /\ pc = "v_run"
    /\ Len(validation.results) < NumValidations
    /\ validation' = [validation EXCEPT !.results = Append(@, FALSE),
                                        !.all_passed = FALSE,
                                        !.outcomes = Append(@, "raise")]
    /\ UNCHANGED << pipeline, database, pc >>

\* The loop is over: the summary is printed; sys.exit(1) unless all_passed,
\* else main() returns and the status is 0.
ValidationExit ==
    /\ pc = "v_run"
    /\ Len(validation.results) = NumValidations
    /\ validation' = [validation EXCEPT
                          !.exit_code = IF validation.all_passed THEN 0 ELSE 1]
    /\ pc' = "v_exited"
    /\ UNCHANGED << pipeline, database >>

ValidationNext ==
    \/ LoadSamples
    \/ LoadSamplesRaises
    \/ ValidationReturns
    \/ ValidationRaises
    \/ ValidationExit

ValidationSpec == ValidationInit /\ [][ValidationNext]_vars

\* ------------------------------------------- a run, then validation mode
\* A single run of main() with both files present and a working session,
\* followed by validate_ingestion.main over the same files and tables.  The
\* first three validations are the environment's choice as above; the
\* fourth, validate_statistical_consistency, compares the row counts of the
\* files with those of the tables and then the average speeds per period.

\* Rows per source file of this specification.
MaxAuditRows == 2

AuditInit ==
    /\ link_exists = TRUE
    /\ speed_exists = TRUE
    /\ linkFile \in SeqsUpTo(LinkRows, MaxAuditRows)
    /\ speedFile \in SeqsUpTo(SpeedRows, MaxAuditRows)
    /\ links = {}
    /\ speed_records = << >>
    /\ pc = "clear"
    /\ chunk_size \in ChunkSizes
    /\ start_idx = 0
    /\ link_objects = << >>
    /\ speed_objects = << >>
    /\ chunk_skipped = 0
    /\ i = 0
    /\ j = 0
    /\ chunk_inserted = 0
    /\ l_processed = 0
    /\ l_inserted = 0
    /\ s_processed = 0
    /\ s_inserted = 0
    /\ s_skipped = 0
    /\ existing_link_ids = {}
    /\ cleared = FALSE
    /\ attempted = FALSE
    /\ degraded = FALSE
    /\ prev = NoPrev
    /\ ValidationIdle
    /\ DatabaseIdle

\* The run has reported success; validate_ingestion.py is started.
RunValidation ==
    /\ pc = "done"
    /\ pc' = "v_load"
    /\ UNCHANGED << pipeline, validation, database >>

\* validate_link_data, validate_speed_data or validate_data_integrity
\* returns passed.
SampleValidationReturns ==
    /\ Len(validation.results) < NumValidations - 1
    /\ ValidationReturns

\* A statistical check that does not compare the row counts.
StatisticalConsistencyReturns_NoCounts ==
    /\ pc = "v_run"
    /\ Len(validation.results) = NumValidations - 1
    /\ \E averages_match \in BOOLEAN :
          validation' = [validation EXCEPT
                            !.results = Append(@, averages_match),
                            !.all_passed = (@ /\ averages_match),
                            !.outcomes = Append(@, IF averages_match THEN "pass" ELSE "fail")]
    /\ UNCHANGED << pipeline, database, pc >>

\* validate_statistical_consistency returns: all_passed is False when the
\* link counts differ, when the speed record counts differ, or when the
\* average speed of a period differs by more than the tolerance (the
\* environment's choice here).
StatisticalConsistencyReturns ==
    /\ pc = "v_run"
    /\ Len(validation.results) = NumValidations - 1
    /\ \E averages_match \in BOOLEAN :
          LET db_link_count == Cardinality(links)
              parquet_link_count == Len(linkFile)
              db_speed_count == Len(speed_records)
              parquet_speed_count == Len(speedFile)
              passed == /\ db_link_count = parquet_link_count
                        /\ db_speed_count = parquet_speed_count
                        /\ averages_match
          IN  validation' = [validation EXCEPT
                                !.results = Append(@, passed),
                                !.all_passed = (@ /\ passed),
                                !.outcomes = Append(@, IF passed THEN "pass" ELSE "fail")]
    /\ UNCHANGED << pipeline, database, pc >>

AuditNext ==
    \/ ClearCommit
    \/ ClearFail
    \/ LinkChunk
    \/ LinkBatchCommit
    \/ LinkBatchRollback
    \/ LinkRetryCommit
    \/ LinkRetryRollback
    \/ LinkChunkDone
    \/ LinksDone
    \/ GetExistingLinkIds
    \/ SpeedChunk
    \/ SpeedBatchCommit
    \/ SpeedBatchRollback
    \/ SpeedChunkDone
    \/ SpeedsDone
    \/ Verify
    \/ RunValidation
    \/ LoadSamples
    \/ LoadSamplesRaises
    \/ SampleValidationReturns
    \/ StatisticalConsistencyReturns
    \/ ValidationRaises
    \/ ValidationExit

AuditSpec == AuditInit /\ [][AuditNext]_vars

\* ------------------------------------------------ engine and factory cache
\* app/core/database.py: get_engine and get_session_factory are lru_cache'd
\* functions over the module globals; reset_database_state clears both
\* layers.  Objects are identified by the order of their creation.

DatabaseInit ==
    /\ linkFile = << >>
    /\ speedFile = << >>
    /\ link_exists = TRUE
    /\ speed_exists = TRUE
    /\ pc = "database"
    /\ Fresh
    /\ ValidationIdle
    /\ DatabaseIdle

\* What a call of get_engine() returns in this state: the cached value, or
\* the body's result (the global, created first when it is None).
EngineValue ==
    IF database.engine_cache # 0 THEN database.engine_cache
    ELSE IF database._engine # 0 THEN database._engine
    ELSE database.next_object

\* Whether that call runs create_engine.
EngineCreated == database.engine_cache = 0 /\ database._engine = 0

\* get_engine()
GetEngine ==
    /\ pc = "database"
    /\ EngineCreated => database.next_object <= MaxObjects
    /\ database' = [database EXCEPT
                        !._engine = IF database.engine_cache # 0 THEN @ ELSE EngineValue,
                        !.engine_cache = EngineValue,
                        !.next_object = IF EngineCreated THEN @ + 1 ELSE @,
                        !.engines_returned = @ \cup { EngineValue }]
    /\ UNCHANGED << pipeline, validation, pc >>

\* get_session_factory(): a cache hit returns the cached factory; else the
\* body runs, and when the global is None it calls get_engine() and binds a
\* new sessionmaker to the result.
GetSessionFactory ==
    /\ pc = "database"
    /\ IF database.factory_cache # 0
       THEN database' = [database EXCEPT
                            !.factories_returned = @ \cup { database.factory_cache }]
       ELSE IF database._session_factory # 0
       THEN database' = [database EXCEPT
                            !.factory_cache = database._session_factory,
                            !.factories_returned = @ \cup { database._session_factory }]
       ELSE LET made == IF EngineCreated THEN database.next_object + 1
                        ELSE database.next_object
            IN  /\ made <= MaxObjects
                /\ database' = [database EXCEPT
                        !._engine = IF database.engine_cache # 0 THEN @ ELSE EngineValue,
                        !.engine_cache = EngineValue,
                        !.engines_returned = @ \cup { EngineValue },
                        !._session_factory = made,
                        !.factory_cache = made,
                        !.next_object = made + 1,
                        !.factories_returned = @ \cup { made }]
    /\ UNCHANGED << pipeline, validation, pc >>

\* A reset that sets the globals to None and leaves the caches alone.
ResetDatabaseState_GlobalsOnly ==
    /\ pc = "database"
    /\ database' = [database EXCEPT
                        !._engine = 0,
                        !._session_factory = 0,
                        !.engines_retired = @ \cup database.engines_returned,
                        !.factories_retired = @ \cup database.factories_returned,
                        !.engines_returned = {},
                        !.factories_returned = {}]
    /\ UNCHANGED << pipeline, validation, pc >>

\* reset_database_state()
ResetDatabaseState ==
    /\ pc = "database"
    /\ database' = [database EXCEPT
                        !._engine = 0,
                        !._session_factory = 0,
                        !.engine_cache = 0,
                        !.factory_cache = 0,
                        !.engines_retired = @ \cup database.engines_returned,
                        !.factories_retired = @ \cup database.factories_returned,
                        !.engines_returned = {},
                        !.factories_returned = {}]
    /\ UNCHANGED << pipeline, validation, pc >>

DatabaseNext ==
    \/ GetEngine
    \/ GetSessionFactory
    \/ ResetDatabaseState

DatabaseSpec == DatabaseInit /\ [][DatabaseNext]_vars

\* ----------------------------------------------------------------- claims

\* What the transformers emit for the whole datasets (they work row by row,
\* so the chunking does not change it).
EmittedLinks == transform_link_chunk(linkFile)
EmittedSpeeds == transform_speed_chunk(speedFile, existing_link_ids).objects

\* C1: referential integrity.  In every reachable state, every persisted
\* SpeedRecord has the link_id of a persisted Link.
C1_ReferentialIntegrity ==
    \A k \in DOMAIN speed_records : speed_records[k].link_id \in LinkIds(links)

\* A finished run that persisted speed records and skipped rows of unknown links.
C1_Witness ==
    /\ pc = "done"
    /\ Len(speed_records) > 0
    /\ s_skipped > 0

\* C2: geometry shape.  Every persisted Link with a geometry holds a LineString
\* of exactly one part, whatever shapes the source rows hold.
C2_GeometryShape ==
    \A l \in links :
        l.geometry # None => l.geometry.gtype = "LineString" /\ Len(l.geometry.parts) = 1

\* The link phase is over for a source with a Point row and a two-part
\* MultiLineString row, and the latter's link is persisted.
C2_Witness ==
    /\ pc = "index"
    /\ \E k \in DOMAIN linkFile : linkFile[k].geo_json.gtype = "Point"
    /\ \E k \in DOMAIN linkFile :
          /\ linkFile[k].geo_json.gtype = "MultiLineString"
          /\ Len(linkFile[k].geo_json.parts) = 2
          /\ \E l \in links : l.link_id = linkFile[k].link_id /\ l.geometry.parts = <<"a">>

\* C3: conservation.  At the end of each phase the rows read equal the rows
\* inserted plus the reported skip counts (the link phase reports none, the
\* speed phase reports total_skipped).
C3_Conservation ==
    /\ pc = "index" => l_processed = l_inserted
    /\ pc = "verify" => s_processed = s_inserted + s_skipped

C5_SpeedFallback ==
    pc = "verify" =>
        Len(speed_records) =
            Cardinality({ k \in DOMAIN EmittedSpeeds : SpeedInsertOK(EmittedSpeeds[k]) })

\* C6: type policy.  No Link entity handed to the writer comes from a shape
\* that is neither a LineString nor a MultiLineString.
C6_TypePolicy ==
    pc = "link_batch" =>
        \A k \in DOMAIN link_objects : link_objects[k].geometry.gtype = "LineString"

\* C7: the transformer emits no Link without geometry and every persisted
\* Link has a geometry.
C7_NoNullGeometry ==
    /\ \A k \in DOMAIN link_objects : link_objects[k].geometry # None
    /\ \A l \in links : l.geometry # None

\* The link phase is over, a row with an invalid geometry was read and links
\* are persisted.
C7_Witness ==
    /\ pc = "index"
    /\ links # {}
    /\ \E k \in DOMAIN linkFile :
          convert_geometry_to_wkt_element(linkFile[k].geo_json) = None

\* C8: destructive reload.  A run that attempted an insert committed its clear
\* step before; past the clear step and before the first insert both tables
\* are empty; an aborted run attempted no insert.
C8_ClearFirst ==
    /\ attempted => cleared
    /\ (pc \in {"links", "link_batch"} /\ ~attempted) =>
          links = {} /\ speed_records = << >>
    /\ pc = "aborted" => ~attempted

\* The clear step of a run failed on a destination that holds rows.
C8_Witness ==
    /\ pc = "aborted"
    /\ links # {}
    /\ speed_records # << >>

\* C9: chunk-size independence.  A run reports the same inserted totals as the
\* run before it, whatever the two configured chunk sizes.
C9_ChunkIndependence ==
    (pc = "verify" /\ prev.done) =>
        l_inserted = prev.l_inserted /\ s_inserted = prev.s_inserted

\* C10: idempotent reload.  A run over the same files with the same
\* configuration ends with the row counts the run before it ended with.
C10_IdempotentReload ==
    (pc = "verify" /\ prev.done /\ prev.chunk_size = chunk_size) =>
        Cardinality(links) = prev.links /\ Len(speed_records) = prev.speeds

\* A second run has finished writing and the first one left rows in both tables.
C10_Witness ==
    /\ pc = "verify"
    /\ prev.done
    /\ prev.chunk_size = chunk_size
    /\ prev.links > 0
    /\ prev.speeds > 0

SkipCounter(reason) == IF reason = "unknown link" THEN s_skipped ELSE 0

\* C12: after both phases every per-reason skip counter (invalid geometry,
\* unparsable identity, bad timestamp, bad speed, unknown link) equals the
\* number of rows that were skipped for that reason; a links dataset of one
\* row with an empty coordinate collection gives "invalid geometry" = 1.
C12_PerReasonSkipAccounting ==
    LET L == 1..Len(linkFile)
        S == 1..Len(speedFile)
        noGeom == { k \in L : convert_geometry_to_wkt_element(linkFile[k].geo_json) = None }
        badLinkId == { k \in L \ noGeom : linkFile[k].link_id = NaN }
        badSpeedId == { k \in S : speedFile[k].link_id = NaN }
        unknown == { k \in S \ badSpeedId : speedFile[k].link_id \notin existing_link_ids }
        known == S \ (badSpeedId \cup unknown)
        badTime == { k \in known : ~to_datetime(speedFile[k].date_time).ok }
        badSpeed == { k \in known \ badTime : speedFile[k].average_speed = BadFloat }
    IN  pc = "verify" =>
            /\ SkipCounter("invalid geometry") = Cardinality(noGeom)
            /\ SkipCounter("unparsable identity") =
                   Cardinality(badLinkId) + Cardinality(badSpeedId)
            /\ SkipCounter("bad timestamp") = Cardinality(badTime)
            /\ SkipCounter("bad speed") = Cardinality(badSpeed)
            /\ SkipCounter("unknown link") = Cardinality(unknown)

\* C13: every speed row whose link_id is not in the referential index gives
\* no SpeedRecord and adds exactly one to the skip count, per chunk and over
\* the whole phase; when every row references an absent link nothing is
\* inserted and the skip count is the number of rows (Scenario C).
C13_UnknownLinkSkip ==
    LET unknown(rows) == { k \in 1..Len(rows) :
                             /\ rows[k].link_id # NaN
                             /\ rows[k].link_id \notin existing_link_ids }
        chunk_df == SubSeq(speedFile, start_idx + 1,
                           Min(start_idx + chunk_size, Len(speedFile)))
    IN  /\ pc = "speed_batch" =>
            /\ chunk_skipped = Cardinality(unknown(chunk_df))
            /\ \A k \in DOMAIN speed_objects :
                   speed_objects[k].link_id \in existing_link_ids
            /\ Len(speed_objects) <= Len(chunk_df) - Cardinality(unknown(chunk_df))
        /\ pc = "verify" =>
            /\ s_skipped = Cardinality(unknown(speedFile))
            /\ s_inserted <= Len(speedFile) - s_skipped
            /\ \A k \in DOMAIN speed_records :
                   speed_records[k].link_id \in existing_link_ids
            /\ Cardinality(unknown(speedFile)) = Len(speedFile) =>
                   (s_inserted = 0 /\ speed_records = << >>
                    /\ s_skipped = Len(speedFile))

\* A run over a speed dataset whose two rows both reference a link that is
\* not among the persisted ones.
C13_Witness ==
    /\ pc = "verify"
    /\ links # {}
    /\ Len(speedFile) = 2
    /\ \A k \in 1..2 : speedFile[k].link_id \notin existing_link_ids
    /\ s_skipped = 2
    /\ s_inserted = 0

\* C14: a MultiLineString with at least one part is written as exactly its
\* first part, a LineString with SRID 4326 (a two-part input gives one
\* inserted Link whose geometry is part one); a MultiLineString with no
\* parts is an invalid geometry and gives no inserted Link.
C14_MultiLineStringFirstPart ==
    LET L == 1..Len(linkFile)
        multi(k) == linkFile[k].geo_json.gtype = "MultiLineString"
        parts(k) == linkFile[k].geo_json.parts
        first(k) == [gtype |-> "LineString", parts |-> << parts(k)[1] >>, srid |-> 4326]
        sole(k) == /\ linkFile[k].link_id # NaN
                   /\ \A m \in L : linkFile[m].link_id = linkFile[k].link_id => m = k
    IN  /\ pc = "link_batch" =>
            \A n \in DOMAIN link_objects :
                \E k \in L :
                    /\ linkFile[k].link_id = link_objects[n].link_id
                    /\ multi(k) => (parts(k) # << >> /\ link_objects[n].geometry = first(k))
        /\ pc = "index" =>
            /\ \A k \in L : (multi(k) /\ sole(k) /\ parts(k) # << >>) =>
                   [link_id |-> linkFile[k].link_id, geometry |-> first(k)] \in links
            /\ \A k \in L : (multi(k) /\ sole(k) /\ parts(k) = << >>) =>
                   linkFile[k].link_id \notin LinkIds(links)
            /\ (\A k \in L : multi(k) /\ parts(k) = << >>) =>
                   (links = {} /\ l_inserted = 0)
            /\ (Len(linkFile) = 1 /\ multi(1) /\ sole(1) /\ Len(parts(1)) = 2) =>
                   (Cardinality(links) = 1 /\ l_inserted = 1)

\* A links dataset of a two-part MultiLineString and an empty one has been
\* written: one Link, whose geometry is part one.
C14_Witness ==
    /\ pc = "index"
    /\ Len(linkFile) = 2
    /\ \E k \in 1..2 : /\ linkFile[k].geo_json.gtype = "MultiLineString"
                        /\ Len(linkFile[k].geo_json.parts) = 2
                        /\ \E l \in links :
                               /\ l.link_id = linkFile[k].link_id
                               /\ l.geometry.parts = << linkFile[k].geo_json.parts[1] >>
    /\ \E k \in 1..2 : /\ linkFile[k].geo_json.gtype = "MultiLineString"
                        /\ linkFile[k].geo_json.parts = << >>
    /\ Cardinality(links) = 1
    /\ l_inserted = 1

\* C15: for every speed row that is emitted (known link_id, parsable
\* timestamp and speed) the SpeedRecord's time_period is the name the table
\* {1: Overnight, 2: Early Morning, 3: AM Peak, 4: Midday, 5: Early
\* Afternoon, 6: PM Peak, 7: Evening} gives for the row's period code; a
\* code outside 1..7 still gives a record, with time_period null.
C15_PeriodMapping ==
    LET names == << "Overnight", "Early Morning", "AM Peak", "Midday",
                    "Early Afternoon", "PM Peak", "Evening" >>
        expected(code) == IF code \in 1..7 THEN names[code] ELSE "None"
        emits(row) == /\ row.link_id # NaN
                      /\ row.link_id \in existing_link_ids
                      /\ row.date_time # "bad"
                      /\ row.average_speed # BadFloat
        known == SelectSeq(speedFile, emits)
    IN  pc = "speeds_returned" =>
            /\ Len(speed_objects) = Len(known)
            /\ \A n \in 1..Len(known) :
                   /\ n \in DOMAIN speed_objects
                   /\ speed_objects[n].link_id = known[n].link_id
                   /\ speed_objects[n].time_period = expected(known[n].period)

\* A chunk of a row with period 3 and a row with a period outside 1..7, both
\* emitted: the first as AM Peak, the second with a null time_period.
C15_Witness ==
    /\ pc = "speeds_returned"
    /\ Len(speedFile) = 2
    /\ speedFile[1].period = 3
    /\ speedFile[2].period \notin 1..7
    /\ Len(speed_objects) = 2
    /\ speed_objects[1].time_period = "AM Peak"
    /\ speed_objects[2].time_period = "None"

\* C16: when the links file or the speed file is missing or unreadable the
\* run aborts with a failure status: nothing of that phase or of a later one
\* is executed, the run never reaches verification nor reports success, and
\* once aborted the process takes no further step (the read is not retried).
C16_FatalSourceFailure ==
    /\ ~link_exists =>
           /\ pc \in {"idle", "clear", "links", "aborted"}
           /\ links = {}
           /\ speed_records = << >>
           /\ l_processed = 0
           /\ existing_link_ids = {}
    /\ ~speed_exists =>
           /\ pc \notin {"speed_batch", "verify", "done"}
           /\ speed_records = << >>
           /\ s_processed = 0
    /\ (~link_exists \/ ~speed_exists) => (pc # "done" /\ ~prev.done)
    /\ (pc = "speeds" /\ ~speed_exists) => ENABLED SpeedsMissing
    /\ (pc = "links" /\ ~link_exists) => ENABLED LinksMissing
    /\ pc = "aborted" => ~ENABLED FilesNext

\* The speed file is missing: the run aborted after the links were written.
C16_Witness ==
    /\ pc = "aborted"
    /\ link_exists
    /\ ~speed_exists
    /\ cleared
    /\ links # {}
    /\ speed_records = << >>

\* C17: in validation mode, once the checks have started, all four are
\* executed whatever the earlier ones did (the process does not exit before
\* the fourth), a check that raises is recorded as failed, and the exit
\* status is non-zero if and only if at least one check failed or raised.
C17_ValidationMode ==
    LET outcomes == validation.outcomes
        results == validation.results
        bad == { k \in DOMAIN outcomes : outcomes[k] \in {"fail", "raise"} }
    IN  /\ pc = "v_run" =>
            /\ validation.exit_code = Running
            /\ Len(results) = Len(outcomes)
            /\ Len(outcomes) < NumValidations =>
                   (ENABLED ValidationReturns /\ ~ENABLED ValidationExit)
        /\ pc = "v_critical" => outcomes = << >>
        /\ pc = "v_exited" =>
            /\ Len(outcomes) = NumValidations
            /\ Len(results) = NumValidations
            /\ \A k \in DOMAIN outcomes : results[k] = (outcomes[k] = "pass")
            /\ validation.exit_code \in {0, 1}
            /\ validation.exit_code # 0 <=> bad # {}
        /\ \A k \in DOMAIN outcomes :
               outcomes[k] = "raise" => (k \in DOMAIN results /\ results[k] = FALSE)

\* The first check raised, the second failed, the last two passed: all four
\* ran and the process exited with status 1.
C17_Witness ==
    /\ pc = "v_exited"
    /\ validation.outcomes = << "raise", "fail", "pass", "pass" >>
    /\ validation.results = << FALSE, FALSE, TRUE, TRUE >>
    /\ validation.exit_code = 1

\* C18: a row whose link_id, timestamp or speed cannot be parsed (or whose
\* geometry is invalid) is skipped and the transformer returns normally:
\* what it returns is, in source order and once each, exactly the records
\* of the other rows of the chunk (for speed rows: those with a known link).
C18_RowFailuresContained ==
    LET validLink(row) ==
            /\ row.geo_json.gtype # "Unparsable"
            /\ ~(row.geo_json.gtype = "MultiLineString" /\ row.geo_json.parts = << >>)
            /\ row.link_id # NaN
        validSpeed(row) ==
            /\ row.link_id # NaN
            /\ row.link_id \in existing_link_ids
            /\ row.date_time # "bad"
            /\ row.average_speed # BadFloat
        keptLinks == SelectSeq(linkFile, validLink)
        keptSpeeds == SelectSeq(speedFile, validSpeed)
    IN  /\ pc = "links_returned" =>
            /\ Len(link_objects) = Len(keptLinks)
            /\ \A n \in 1..Len(keptLinks) :
                   /\ n \in DOMAIN link_objects
                   /\ link_objects[n].link_id = keptLinks[n].link_id
                   /\ link_objects[n].geometry.parts =
                          << keptLinks[n].geo_json.parts[1] >>
        /\ pc = "speeds_returned" =>
            /\ Len(speed_objects) = Len(keptSpeeds)
            /\ \A n \in 1..Len(keptSpeeds) :
                   /\ n \in DOMAIN speed_objects
                   /\ speed_objects[n].link_id = keptSpeeds[n].link_id
                   /\ speed_objects[n].speed = keptSpeeds[n].average_speed
                   /\ keptSpeeds[n].date_time = "t1" =>
                          speed_objects[n].timestamp = "t1"
        /\ pc = "transformer" => ENABLED TransformerNext

\* A chunk of three link rows whose middle row has an unparsable link_id:
\* the transformer returned the first and the third.
C18_Witness ==
    /\ pc = "links_returned"
    /\ Len(linkFile) = 3
    /\ linkFile[1].link_id = 1
    /\ linkFile[2].link_id = NaN
    /\ linkFile[2].geo_json.gtype = "LineString"
    /\ linkFile[3].link_id = 2
    /\ Len(link_objects) = 2
    /\ link_objects[1].link_id = 1
    /\ link_objects[2].link_id = 2

\* The source rows the process holds in memory: link_df from read_parquet
\* to "del link_df" and speed_df likewise; chunk_df is a slice of it.
ResidentSourceRows ==
    IF pc \in {"link_batch", "link_retry"} \/ (pc = "links" /\ start_idx > 0)
    THEN Len(linkFile)
    ELSE IF pc = "speed_batch" \/ (pc = "speeds" /\ start_idx > 0)
         THEN Len(speedFile)
         ELSE 0

\* C19: at every point of a phase the source rows held in memory are those
\* of the chunk being processed, at most the configured chunk size, however
\* many rows the dataset has.
C19_BoundedResidency == ResidentSourceRows <= chunk_size

\* C20: between two calls of reset_database_state every call of get_engine
\* returns the same engine and every call of get_session_factory the same
\* factory; after a reset the next calls return new objects, distinct from
\* every object returned before the reset.
C20_CachedUntilReset ==
    /\ Cardinality(database.engines_returned) <= 1
    /\ Cardinality(database.factories_returned) <= 1
    /\ database.engines_returned \cap database.engines_retired = {}
    /\ database.factories_returned \cap database.factories_retired = {}
    /\ database.engines_returned \subseteq { database._engine }
    /\ database.factories_returned \subseteq { database._session_factory }

\* After a reset that retired an engine and a factory, both getters have
\* been called again.
C20_Witness ==
    /\ database.engines_retired # {}
    /\ database.factories_retired # {}
    /\ database.engines_returned # {}
    /\ database.factories_returned # {}
    /\ database._engine \notin database.engines_retired
    /\ database._session_factory \notin database.factories_retired


\* ------------------------------------------ phases, writers and validator

\* C21: phase ordering within one run.  The referential index is built on
\* the one step that leaves pc = "index", which is entered only from the
\* link phase once the last chunk's writer has returned; the link table
\* changes only in the clear step and in the link writer, the speed table
\* only in the clear step and in the speed writer, and once the index step
\* has been entered the run never goes back to the clear or the link phase.
C21_PhaseOrdering ==
    [][ /\ (pc' = "index" /\ pc # "index") =>
              /\ pc = "links"
              /\ start_idx >= Len(linkFile)
              /\ link_objects = << >>
        /\ (pc = "index" /\ pc' # pc) =>
              /\ pc' = "speeds"
              /\ start_idx' = 0
              /\ speed_records' = << >>
        /\ (existing_link_ids' # existing_link_ids) =>
              pc = "index" \/ pc' = "clear"
        /\ (links' # links) => pc \in {"clear", "link_batch", "link_retry"}
        /\ (speed_records' # speed_records) => pc \in {"clear", "speed_batch"}
        /\ (pc = "speed_batch" /\ i' # i /\ pc' = pc) =>
              existing_link_ids' = existing_link_ids
        /\ (pc \in {"index", "speeds", "speed_batch", "verify"}) =>
              pc' \notin {"clear", "links", "link_batch", "link_retry"}
        /\ (pc \in {"speeds", "speed_batch", "verify"}) => pc' # "index"
      ]_vars

\* A run that took the per-row retry path in the link phase, built a
\* non-empty index and then committed speed records.
C21_Witness ==
    /\ pc = "verify"
    /\ degraded
    /\ \E k \in 1..Len(linkFile) : linkFile[k].geo_json.gtype = "Point"
    /\ existing_link_ids # {}
    /\ speed_records # << >>

\* C22: from the moment the index is built until the end of the speed phase
\* the in-memory index equals the set of link ids persisted in the links
\* table.
C22_IndexFidelity ==
    pc \in {"speeds", "speed_batch", "speed_critical", "verify"} =>
        existing_link_ids = LinkIds(links)


\* C23: chunk partition.  In each phase the chunks are the consecutive
\* slices [start_idx, start_idx + chunk_size) of the source rows, in source
\* order: every chunk starts where the rows processed so far end, at a
\* multiple of chunk_size, holds at least one and at most chunk_size rows
\* (fewer only when the file ends), and the objects handed to the writer are
\* the transformation of exactly that slice; at the end of the phase the
\* processed total is the number of rows of the file.  A file of no rows
\* gives no chunk.
C23_ChunkPartition ==
    /\ pc \in {"links", "link_batch", "link_retry"} =>
          /\ l_processed = start_idx
          /\ start_idx <= Len(linkFile)
          /\ start_idx % chunk_size = 0 \/ start_idx = Len(linkFile)
    /\ pc \in {"link_batch", "link_retry"} =>
          /\ start_idx < Len(linkFile)
          /\ link_objects =
                transform_link_chunk(SubSeq(linkFile, start_idx + 1,
                                            Min(start_idx + chunk_size, Len(linkFile))))
    /\ pc \in {"index", "speeds", "speed_batch", "verify", "done"} =>
          l_processed = Len(linkFile)
    /\ pc \in {"speeds", "speed_batch"} =>
          /\ s_processed = start_idx
          /\ start_idx <= Len(speedFile)
          /\ start_idx % chunk_size = 0 \/ start_idx = Len(speedFile)
    /\ pc = "speed_batch" =>
          /\ start_idx < Len(speedFile)
          /\ speed_objects =
                transform_speed_chunk(SubSeq(speedFile, start_idx + 1,
                                             Min(start_idx + chunk_size, Len(speedFile))),
                                      existing_link_ids).objects
    /\ pc \in {"verify", "done"} => s_processed = Len(speedFile)

\* Both phases ended on a last chunk shorter than chunk_size.
C23_Witness ==
    /\ pc = "verify"
    /\ chunk_size = 2
    /\ Len(linkFile) = 3
    /\ Len(speedFile) = 1
    /\ l_processed = 3
    /\ s_processed = 1


\* C24: writer count accuracy.  On a destination that was empty when the
\* phase started, the rows committed to a table are, at every point of the
\* phase, the running total of the earlier chunks plus the count the
\* current writer call has accumulated, so each call returns the number of
\* rows it committed and the phase total equals the table's row count when
\* the phase ends.
C24_WriterCountAccuracy ==
    /\ pc \in {"links", "link_batch", "link_retry", "link_critical"} =>
          l_inserted + chunk_inserted = Cardinality(links)
    /\ pc \in {"index", "speeds", "speed_batch", "speed_critical", "verify", "done"} =>
          l_inserted = Cardinality(links)
    /\ pc \in {"speeds", "speed_batch", "speed_critical"} =>
          s_inserted + chunk_inserted = Len(speed_records)
    /\ pc \in {"verify", "done"} => s_inserted = Len(speed_records)

\* A writer call about to return after a chunk of two batches in which a
\* bulk insert failed and the rows that could be stored were committed.
C24_Witness ==
    /\ pc = "link_batch"
    /\ i >= Len(link_objects)
    /\ Len(link_objects) = 3
    /\ degraded
    /\ chunk_inserted = 2
    /\ Cardinality(links) = 2


\* C25 as stated: every step of a writer leaves the rows committed before
\* in place and persists either the whole batch in flight or none of it.
C25_BatchAllOrNothing ==
    [][ /\ pc \in {"link_batch", "link_retry", "link_critical"} =>
              /\ links \subseteq links'
              /\ links' = links \/ links' = links \cup SeqToSet(LinkBatch)
        /\ pc \in {"speed_batch", "speed_critical"} =>
              \/ speed_records' = speed_records
              \/ speed_records' = speed_records \o SpeedBatch
      ]_vars

\* C25, amended: wherever a writer stops, the rows committed before stay
\* persisted.  A bulk insert persists the whole batch or nothing; while a
\* Link batch is retried row by row after a failed bulk insert each step
\* persists at most the one row being retried, so the rows of that batch
\* tried so far may be persisted and the others not.  The other table is
\* untouched, and a writer in its outer handler persists nothing.
C25_BatchAtomicity ==
    [][ /\ pc \in {"link_batch", "link_retry", "link_critical"} =>
              /\ links \subseteq links'
              /\ speed_records' = speed_records
        /\ pc = "link_batch" =>
              \/ links' = links
              \/ links' = links \cup SeqToSet(LinkBatch) /\ i' = i + LINK_BATCH_SIZE
        /\ pc = "link_retry" =>
              \/ links' = links
              \/ links' = links \cup { LinkBatch[j] }
        /\ pc = "link_critical" => links' = links
        /\ pc \in {"speed_batch", "speed_critical"} =>
              /\ links' = links
              /\ \/ speed_records' = speed_records
                 \/ /\ pc = "speed_batch"
                    /\ speed_records' = speed_records \o SpeedBatch
                    /\ i' = i + SPEED_BATCH_SIZE
      ]_vars

\* The link writer is between two individual retries of a batch of two: the
\* first row is committed, the second has not been tried.
C25_Witness ==
    /\ pc = "link_retry"
    /\ Len(LinkBatch) = 2
    /\ j = 2
    /\ chunk_inserted = 1
    /\ links = { LinkBatch[1] }


C27_AtomicClear ==
    [][ pc = "clear" =>
          \/ /\ pc' = "links"
             /\ cleared'
             /\ links' = {}
             /\ speed_records' = << >>
          \/ /\ pc' = "aborted"
             /\ ~cleared'
             /\ links' = links
             /\ speed_records' = speed_records
      ]_vars

\* The clear step failed on a destination that holds links and speed
\* records: the run is aborted and both tables are as they were.
C27_Witness ==
    /\ pc = "aborted"
    /\ ~cleared
    /\ links = { StaleLink }
    /\ speed_records = << StaleSpeedRecord >>


\* C28: late detection of a missing file.  A run that cleared the
\* destination and then aborted did so at the start of the phase whose file
\* is missing.  With the links file missing the destination is empty and no
\* index was built.  With the links file present and the speed file missing
\* the whole link phase has run: every source row was processed, every id
\* carried by a row with a valid geometry is persisted, nothing of the
\* earlier load is left, the index was built, and there is no speed record.
C28_LateDetection ==
    LET valid(row) ==
            /\ row.link_id # NaN
            /\ \/ row.geo_json.gtype = "LineString"
               \/ row.geo_json.gtype = "MultiLineString" /\ row.geo_json.parts # << >>
    IN  (pc = "aborted" /\ cleared) =>
            /\ ~link_exists \/ ~speed_exists
            /\ ~link_exists =>
                  /\ links = {}
                  /\ speed_records = << >>
                  /\ existing_link_ids = {}
                  /\ ~attempted
            /\ link_exists =>
                  /\ l_processed = Len(linkFile)
                  /\ \A k \in DOMAIN linkFile :
                        valid(linkFile[k]) => linkFile[k].link_id \in LinkIds(links)
                  /\ l_inserted = Cardinality(links)
                  /\ StaleLink \notin links
                  /\ existing_link_ids = LinkIds(links)
                  /\ speed_records = << >>
                  /\ s_processed = 0

\* The speed file is missing: the run has aborted after a link phase that
\* took the retry path, with two new links committed and no speed record.
C28_Witness ==
    /\ pc = "aborted"
    /\ cleared
    /\ ~speed_exists
    /\ Cardinality(links) = 2
    /\ speed_records = << >>
    /\ degraded


\* C29 as stated: a writer that has reached its outer handler always
\* returns the count committed so far, with the batch loop left and nothing
\* written, and the chunk loop goes on; the writer never raises.
C29_WriterNeverRaises ==
    [][ /\ pc = "link_critical" =>
              /\ pc' = "link_batch"
              /\ i' >= Len(link_objects')
              /\ chunk_inserted' = chunk_inserted
              /\ UNCHANGED << tables, link_objects, link_totals >>
        /\ pc = "speed_critical" =>
              /\ pc' = "speed_batch"
              /\ i' >= Len(speed_objects')
              /\ chunk_inserted' = chunk_inserted
              /\ UNCHANGED << tables, speed_objects, chunk_skipped, speed_totals >>
      ]_vars

\* C29, amended: a writer that has reached its outer handler writes no
\* further batch of the chunk.  When the rollback in the outer handler
\* returns, the writer returns the count committed so far: the batch loop is
\* left, nothing is written or counted as skipped, and the chunk loop goes
\* on with its totals and the next chunk.  When that rollback raises too,
\* the exception leaves the writer and the run aborts with both tables as
\* they were.
C29_WriterAbandonment ==
    /\ [](pc = "link_batch" /\ i >= Len(link_objects) => ENABLED LinkChunkDone)
    /\ [](pc = "speed_batch" /\ i >= Len(speed_objects) => ENABLED SpeedChunkDone)
    /\ [][ /\ pc = "link_critical" =>
                 /\ UNCHANGED << tables, link_objects, link_totals, chunk_inserted >>
                 /\ \/ pc' = "link_batch" /\ i' >= Len(link_objects')
                    \/ pc' = "aborted"
           /\ pc = "speed_critical" =>
                 /\ UNCHANGED << tables, speed_objects, chunk_skipped, speed_totals,
                                 chunk_inserted >>
                 /\ \/ pc' = "speed_batch" /\ i' >= Len(speed_objects')
                    \/ pc' = "aborted"
           /\ (pc = "link_batch" /\ links' # links) => i < Len(link_objects)
           /\ (pc = "speed_batch" /\ speed_records' # speed_records) =>
                 i < Len(speed_objects)
         ]_vars

\* A chunk of three rows in two batches: the first batch failed and the
\* rollback raised, the writer returned 0 without writing the second batch
\* (a row that can be stored), and the run went on to its end.
C29_Witness ==
    /\ pc = "verify"
    /\ chunk_size = 3
    /\ Len(linkFile) = 3
    /\ linkFile[1].geo_json.gtype = "Point"
    /\ linkFile[3] = [link_id |-> 2,
                      geo_json |-> [gtype |-> "MultiLineString", parts |-> <<"a", "b">>]]
    /\ links = {}
    /\ l_inserted = 0
    /\ l_processed = 3


\* C30: validator versus skip policy.  The statistical consistency check
\* returns passed only when the links table holds as many rows as the links
\* file and the speed_records table as many as the speed file; so after a
\* run that skipped at least one source row (inserted fewer rows than it
\* processed, in either phase) the fourth validation is recorded as failed
\* and validation mode exits with a non-zero status.
C30_ValidatorVersusSkipPolicy ==
    LET results == validation.results
        skipped == l_inserted < l_processed \/ s_inserted < s_processed
    IN  /\ (Len(results) = NumValidations /\ results[NumValidations]) =>
              /\ Cardinality(links) = Len(linkFile)
              /\ Len(speed_records) = Len(speedFile)
        /\ (Len(results) = NumValidations /\ skipped) =>
              /\ ~results[NumValidations]
              /\ ~validation.all_passed
        /\ (pc \in {"v_exited", "v_critical"} /\ skipped) => validation.exit_code = 1

\* The run skipped a row, the first three validations passed, the
\* statistical check returned failed and the process exited with status 1.
C30_Witness ==
    /\ pc = "v_exited"
    /\ l_inserted < l_processed \/ s_inserted < s_processed
    /\ validation.outcomes = << "pass", "pass", "pass", "fail" >>
    /\ validation.exit_code = 1

====
